---- MODULE Spec2Model ----
(***************************************************************************)
(* A model of ibm_think_to_epub.py: the navigation parser and the two TOC  *)
(* operations, the asset resolver, the link rewriter, the structural       *)
(* sanitizer and the driver (main) with the document assembler.            *)
(*                                                                         *)
(* Data conventions                                                        *)
(*  - A title is a sequence of words (<<>> is the empty string).           *)
(*  - An address (href, src, url) is a record                              *)
(*      [scheme, host, rooted, path, ext, frag]                            *)
(*    scheme "" = none, host "" = none, rooted = the path starts with "/", *)
(*    path = the path segments, ext = the extension of the last segment,   *)
(*    frag = the text after "#", "" when there is no "#".                  *)
(*  - A TOC node is the dict the parser builds: a link has the keys        *)
(*    title, url, href, type, level; a section has title, type, level,     *)
(*    children.                                                            *)
(***************************************************************************)
EXTENDS Integers, Sequences, FiniteSets, TLC

VARIABLES
    pc,              \* position of the running specification
    nav,             \* navigation markup: the <li> items of the level-0 list
    toc_structure,   \* the hierarchical TOC (list of dicts)
    toc_items,       \* the flattened TOC (list of link dicts)
    processed_urls,  \* the allow-set handed to _limit_toc_structure
    limited,         \* [result, input]: what _limit_toc_structure returned and
                     \* the argument list as it is after the call
    toc_arg,         \* the tree handed to the TOC operation under test
    downloaded_images, \* scraper.downloaded_images: absolute URL -> asset record
    downloads,       \* log of the requests download_image issued: [url, resp]
    refs,            \* log of the <img> elements process_images has handled:
                     \* [page, url, img] with img the element after the step
    img_page,        \* number of the page (process_images call) under way
    prev_images,     \* downloaded_images at the end of the previous run
    img_budget,      \* <img> elements still to come (bounds the run)
    html_in,         \* the content fragment handed to clean_html
    html_out,        \* what clean_html returned for html_in
    html_out2,       \* what clean_html returned for html_out
    max_pages,       \* --max-pages: <<>> when not given, else <<n>>
    idx,             \* the page loop's idx (position in toc_items, from 1)
    chapters,        \* epub_gen.chapters
    chapter_map,     \* epub_gen.chapter_map: URL -> file_name of the chapter
    page_log,        \* log of the page loop: [idx, url, fetched, stripped]
    events,          \* log of the fetches and sleeps of the run
    chapters_pass1,  \* epub_gen.chapters as they were before pass 2
    book_images,     \* the image items added to the book
    book_toc,        \* book.toc
    spine            \* book.spine

tocVars == <<nav, toc_structure, toc_items, processed_urls, limited, toc_arg>>
imgVars == <<downloaded_images, downloads, refs, img_page, prev_images, img_budget>>
htmlVars == <<html_in, html_out, html_out2>>
drvVars == <<max_pages, idx, chapters, chapter_map, page_log, events, chapters_pass1,
             book_images, book_toc, spine>>
vars == <<pc, tocVars, imgVars, htmlVars, drvVars>>

\* ------------------------------------------------------------------ bounds
MaxNavItems == 4
MaxImgRefs == 3
MaxHtmlNodes == 3
MaxPagesCap == 2

\* ---------------------------------------------------- program constants
\* line 904: the least length of a page's content
MinContentLen == 100

\* --------------------------------------------------------------- addresses
Range(s) == {s[i] : i \in 1..Len(s)}

Addr(scheme, host, rooted, path, ext, frag) ==
    [scheme |-> scheme, host |-> host, rooted |-> rooted, path |-> path,
     ext |-> ext, frag |-> frag]

EmptyAddr == Addr("", "", FALSE, <<>>, "", "")

\* The guide's starting URL, https://www.ibm.com/think/topics/guide
BaseUrl == Addr("https", "www.ibm.com", TRUE, <<"think", "topics", "guide">>, "", "")

\* bool(href): a Python string is falsy only when empty
IsEmptyStr(h) == h = EmptyAddr

ButLast(s) == IF Len(s) = 0 THEN s ELSE SubSeq(s, 1, Len(s) - 1)

\* urllib.parse.urljoin(base, h), RFC 3986 section 5.2 without dot segments
Urljoin(base, h) ==
    IF h.scheme # "" THEN h
    ELSE IF h.host # "" THEN [h EXCEPT !.scheme = base.scheme]
    ELSE IF h.rooted THEN [h EXCEPT !.scheme = base.scheme, !.host = base.host]
    ELSE IF h.path # <<>> THEN
        [h EXCEPT !.scheme = base.scheme, !.host = base.host, !.rooted = TRUE,
                  !.path = ButLast(base.path) \o h.path]
    ELSE IF h.frag # "" THEN [base EXCEPT !.frag = h.frag]
    ELSE base

\* ------------------------------------------------------- navigation parser
\* An <li> of the navigation widget:
\*   cls  : n of its class cmp-side-navigation__section--level<n>
\*   a    : its direct <a> children classed cmp-side-navigation__item--level<acls>,
\*          each [href, title, acls]
\*   span : its direct collapsible <span> children, each the sequence of the
\*          span's child texts (an <svg> child is the text part "svg")
\*   ul   : the <li> children of its first descendant <ul> classed level<cls+1>
NavLi(cls, a, span, ul) == [cls |-> cls, a |-> a, span |-> span, ul |-> ul]

\* lines 105-117: the span's parts without svg, empty text and "Caret right"
RECURSIVE TitleParts(_)
TitleParts(parts) ==
    IF parts = <<>> THEN <<>>
    ELSE LET p == Head(parts)
             rest == TitleParts(Tail(parts))
         IN IF p = "svg" \/ p = "" \/ p = "Caret right" THEN rest ELSE <<p>> \o rest

RECURSIVE ParseNavigationLevel(_, _)
\* _parse_navigation_item: a link dict, a section dict, or None (<<>> here:
\* the result is a sequence of zero or one item)
ParseNavigationItem(li, level) ==
    LET links == SelectSeq(li.a, LAMBDA x : x.acls = level)
        isLink == links # <<>> /\ ~IsEmptyStr(links[1].href) /\ links[1].title # <<>>
        title == IF li.span = <<>> THEN <<>> ELSE TitleParts(li.span[1])
    IN IF isLink THEN
           << [title |-> links[1].title, url |-> Urljoin(BaseUrl, links[1].href),
               href |-> links[1].href, type |-> "link", level |-> level] >>
       ELSE IF li.span # <<>> /\ title # <<>> THEN
           << [title |-> title, type |-> "section", level |-> level,
               children |-> ParseNavigationLevel(li.ul, level + 1)] >>
       ELSE <<>>

\* _parse_navigation_level over the <li> children of the level's <ul>
ParseNavigationLevel(lis, level) ==
    IF lis = <<>> THEN <<>>
    ELSE (IF Head(lis).cls = level THEN ParseNavigationItem(Head(lis), level) ELSE <<>>)
         \o ParseNavigationLevel(Tail(lis), level)

\* ---------------------------------------------------------- flatten, limit
RECURSIVE FlattenRecursiveRev(_)
FlattenRecursiveRev(items) ==
    IF items = <<>> THEN <<>>
    ELSE LET item == Head(items)
         IN FlattenRecursiveRev(Tail(items))
            \o (IF item.type = "link" THEN <<item>>
                ELSE IF item.type = "section" /\ "children" \in DOMAIN item
                     THEN FlattenRecursiveRev(item.children)
                ELSE <<>>)

RECURSIVE FlattenRecursive(_)
\* _flatten_recursive: what one call appends to `flattened`
FlattenRecursive(items) ==
    IF items = <<>> THEN <<>>
    ELSE LET item == Head(items)
         IN (IF item.type = "link" THEN <<item>>
             ELSE IF item.type = "section" /\ "children" \in DOMAIN item
                  THEN FlattenRecursive(item.children)
             ELSE <<>>)
            \o FlattenRecursive(Tail(items))

FlattenTocStructureRev(toc) == FlattenRecursiveRev(toc)

FlattenTocStructure(toc) == FlattenRecursive(toc)

RECURSIVE LimitRecursive(_, _)
\* _limit_recursive(items): [result, input], the returned list and the list
\* `items` as it is after the call (item.copy() is a shallow copy: assigning
\* limited_item['children'] leaves item['children'] as it was)
LimitRecursive(items, urls) ==
    IF items = <<>> THEN [result |-> <<>>, input |-> <<>>]
    ELSE LET item == Head(items)
             rest == LimitRecursive(Tail(items), urls)
         IN IF item.type = "link" THEN
                [result |-> (IF item.url \in urls THEN <<item>> ELSE <<>>) \o rest.result,
                 input |-> <<item>> \o rest.input]
            ELSE IF item.type = "section" /\ "children" \in DOMAIN item THEN
                LET sub == LimitRecursive(item.children, urls)
                    limited_item == [item EXCEPT !.children = sub.result]
                IN [result |-> (IF sub.result # <<>> THEN <<limited_item>> ELSE <<>>)
                                \o rest.result,
                    input |-> <<[item EXCEPT !.children = sub.input]>> \o rest.input]
            ELSE [result |-> rest.result, input |-> <<item>> \o rest.input]

RECURSIVE LimitKeepEmpty(_, _)
LimitKeepEmpty(items, urls) ==
    IF items = <<>> THEN [result |-> <<>>, input |-> <<>>]
    ELSE LET item == Head(items)
             rest == LimitKeepEmpty(Tail(items), urls)
         IN IF item.type = "link" THEN
                [result |-> (IF item.url \in urls THEN <<item>> ELSE <<>>) \o rest.result,
                 input |-> <<item>> \o rest.input]
            ELSE LET sub == LimitKeepEmpty(item.children, urls)
                 IN [result |-> <<[item EXCEPT !.children = sub.result]>> \o rest.result,
                     input |-> <<[item EXCEPT !.children = sub.input]>> \o rest.input]

LimitTocStructureKeepEmpty(toc, urls) == LimitKeepEmpty(toc, urls)

LimitTocStructure(toc, urls) == LimitRecursive(toc, urls)

\* ------------------------------------------------------------------- markup
\* An element is [tag, attrs, kids]; attrs is a function from attribute names
\* to values, kids the child nodes in document order.  A text node is
\* [tag |-> "#text", text |-> <<characters>>].
NoAttrs == <<>>

Elem(tag, attrs, kids) == [tag |-> tag, attrs |-> attrs, kids |-> kids]

HasAttr(el, k) == k \in DOMAIN el.attrs

\* tag.get(k, default)
GetAttr(el, k, default) == IF k \in DOMAIN el.attrs THEN el.attrs[k] ELSE default

\* tag[k] = v
SetAttr(el, k, v) ==
    [el EXCEPT !.attrs = [a \in (DOMAIN el.attrs) \cup {k} |->
                              IF a = k THEN v ELSE el.attrs[a]]]

\* del tag[k]
DelAttr(el, k) ==
    [el EXCEPT !.attrs = [a \in (DOMAIN el.attrs) \ {k} |-> el.attrs[a]]]

\* ------------------------------------------------------------ asset resolver
\* A response is [ok |-> FALSE] (network error, timeout, non-2xx) or
\* [ok |-> TRUE, content_type, content]; content_type "" is an absent header.

\* `needle in content_type` for the five needles of lines 236-248
CtContains(content_type, needle) ==
    \/ content_type = needle
    \/ content_type = "image/svg+xml" /\ needle = "image/svg"

\* img_url.endswith('.<ext>')
UrlEndsWith(u, exts) == u.frag = "" /\ u.path # <<>> /\ u.ext \in exts

\* lines 235-253 of download_image: the if/elif chain as written
InferType(content_type, img_url) ==
    IF CtContains(content_type, "image/jpeg") \/ UrlEndsWith(img_url, {"jpg", "jpeg"})
        THEN [ext |-> "jpg", media_type |-> "image/jpeg"]
    ELSE IF CtContains(content_type, "image/png") \/ UrlEndsWith(img_url, {"png"})
        THEN [ext |-> "png", media_type |-> "image/png"]
    ELSE IF CtContains(content_type, "image/gif") \/ UrlEndsWith(img_url, {"gif"})
        THEN [ext |-> "gif", media_type |-> "image/gif"]
    ELSE IF CtContains(content_type, "image/svg") \/ UrlEndsWith(img_url, {"svg"})
        THEN [ext |-> "svg", media_type |-> "image/svg+xml"]
    ELSE IF CtContains(content_type, "image/webp") \/ UrlEndsWith(img_url, {"webp"})
        THEN [ext |-> "webp", media_type |-> "image/webp"]
    ELSE [ext |-> "jpg", media_type |-> "image/jpeg"]

\* download_image: <<>> for None, else one record (content, ext, media_type)
DownloadImage(img_url, resp) ==
    IF ~resp.ok THEN <<>>
    ELSE LET t == InferType(resp.content_type, img_url)
         IN << [content |-> resp.content, ext |-> t.ext, media_type |-> t.media_type] >>

\* 'img_' + hashlib.md5(img_url.encode()).hexdigest()[:12], tabulated for the
\* image URLs of the model (the digests are those of the URLs written out)
ImgStem(img_url) ==
    CASE img_url = Addr("https", "cdn.example.com", TRUE, <<"x">>, "png", "")
             -> "img_981f77fb3d45"
      [] img_url = Addr("https", "www.ibm.com", TRUE, <<"content", "y">>, "jpg", "")
             -> "img_694eea35391f"
      [] img_url = Addr("https", "www.ibm.com", TRUE, <<"think", "topics", "z">>, "", "")
             -> "img_4128cae71b09"
      [] img_url = Addr("https", "www.ibm.com", TRUE, <<"think", "topics", "fig">>, "png", "")
             -> "img_8cf707d5772f"
      [] OTHER -> "img_????????????"

\* a stem that is not derived from the URL alone
ImgFilenameOfType(img_url, ext) ==
    Addr("", "", FALSE, <<"images", IF ext = "jpg" THEN ImgStem(img_url) ELSE "img_" >>, ext, "")

\* lines 283-284: f'images/img_{img_hash}.{ext}'
ImgFilename(img_url, ext) ==
    Addr("", "", FALSE, <<"images", ImgStem(img_url)>>, ext, "")

CacheHitNever(img_url, cache) == FALSE

\* line 271: img_url in self.downloaded_images
CacheHit(img_url, cache) == img_url \in DOMAIN cache

\* One iteration of the loop of process_images (lines 262-300) for the
\* element img, with resp the answer of the server should a request be made:
\* [img, cache, requested] = the element and the cache after the iteration and
\* the requests issued (zero or one [url, resp])
ProcessImage(img, cache, resp) ==
    LET src == GetAttr(img, "src", EmptyAddr)
        img_url == Urljoin(BaseUrl, src)
        result == DownloadImage(img_url, resp)
        img_filename == ImgFilename(img_url, result[1].ext)
    IN IF IsEmptyStr(src) THEN
           [img |-> img, cache |-> cache, requested |-> <<>>]
       ELSE IF CacheHit(img_url, cache) THEN
           \* line 272 assigns the cached value itself, the asset dict
           [img |-> DelAttr(SetAttr(img, "src", cache[img_url]), "srcset"),
            cache |-> cache, requested |-> <<>>]
       ELSE IF result # <<>> THEN
           [img |-> DelAttr(DelAttr(SetAttr(img, "src", img_filename), "srcset"), "loading"),
            cache |-> [u \in (DOMAIN cache) \cup {img_url} |->
                          IF u = img_url
                          THEN [filename |-> img_filename, content |-> result[1].content,
                                media_type |-> result[1].media_type]
                          ELSE cache[u]],
            requested |-> << [url |-> img_url, resp |-> resp] >>]
       ELSE [img |-> img, cache |-> cache,
             requested |-> << [url |-> img_url, resp |-> resp] >>]

\* ------------------------------------------------------------ markup trees
\* Markup is a sequence of nodes (the children of <body>) in document order.
\* A string of HTML is modelled by the tree the parser builds from it, in
\* canonical form: see Serialize.  Text is a sequence of characters.
Text(chars) == [tag |-> "#text", text |-> chars]

IsText(n) == n.tag = "#text"

Whitespace == {" ", "\n"}

RECURSIVE StripLeft(_)
StripLeft(t) == IF t # <<>> /\ Head(t) \in Whitespace THEN StripLeft(Tail(t)) ELSE t

RECURSIVE StripRight(_)
StripRight(t) ==
    IF t # <<>> /\ t[Len(t)] \in Whitespace THEN StripRight(ButLast(t)) ELSE t

\* str.strip()
Strip(t) == StripRight(StripLeft(t))

RECURSIVE KidsText(_)
\* tag.get_text(strip=True) for a tag with these children: the stripped
\* strings below it, empty ones left out, joined without a separator
KidsText(kids) ==
    IF kids = <<>> THEN <<>>
    ELSE (IF IsText(Head(kids)) THEN Strip(Head(kids).text)
          ELSE KidsText(Head(kids).kids))
         \o KidsText(Tail(kids))

RECURSIVE Descendants(_)
\* tag.find_all(): the elements below, in document order
Descendants(kids) ==
    IF kids = <<>> THEN <<>>
    ELSE (IF IsText(Head(kids)) THEN <<>>
          ELSE <<Head(kids)>> \o Descendants(Head(kids).kids))
         \o Descendants(Tail(kids))

\* tag.find_all([names])
FindAll(kids, tags) == SelectSeq(Descendants(kids), LAMBDA n : n.tag \in tags)

Reverse(s) == [i \in 1..Len(s) |-> s[Len(s) + 1 - i]]

RECURSIVE Serialize(_)
\* str(soup) read back by the parser: adjacent strings are one string and an
\* empty string leaves no node
Serialize(kids) ==
    IF kids = <<>> THEN <<>>
    ELSE LET n == Head(kids)
             rest == Serialize(Tail(kids))
         IN IF ~IsText(n) THEN <<[n EXCEPT !.kids = Serialize(n.kids)]>> \o rest
            ELSE IF n.text = <<>> THEN rest
            ELSE IF rest # <<>> /\ IsText(Head(rest))
                 THEN <<Text(n.text \o Head(rest).text)>> \o Tail(rest)
            ELSE <<n>> \o rest

\* -------------------------------------------------- predicates on addresses
IsAddr(v) == "scheme" \in DOMAIN v

\* href.startswith('http')
StartsWithHttp(h) == IsAddr(h) /\ h.scheme \in {"http", "https"}

\* src.startswith('http://') or src.startswith('https://') or src.startswith('//')
IsRemote(h) ==
    IsAddr(h) /\ (h.scheme \in {"http", "https"} \/ (h.scheme = "" /\ h.host # ""))

\* 'ibm.com/think' in href
InIbmThink(h) == h.host = "www.ibm.com" /\ h.path # <<>> /\ h.path[1] = "think"

\* 'adobe-cms' in href
HasAdobeCms(h) == "adobe-cms" \in Range(h.path)

\* href.endswith('.html')
EndsWithHtml(h) == h.frag = "" /\ h.path # <<>> /\ h.ext = "html"

\* href.startswith('#')
IsFragmentOnly(h) == h.scheme = "" /\ h.host = "" /\ h.path = <<>> /\ h.frag # ""

\* '%' in src, '%%' in src: path segments written with percent signs
PercentSegments == {"a%20b", "%%src%%"}

HasPercent(h) == IsAddr(h) /\ Range(h.path) \cap PercentSegments # {}

HasPercentPercent(h) == IsAddr(h) /\ "%%src%%" \in Range(h.path)

\* --------------------------------------------------------------- sanitizer
Headings == {"h1", "h2", "h3", "h4", "h5", "h6"}

InlineTags == {"p", "span", "a", "strong", "em", "i", "b", "u"}

ListTags == {"ul", "ol"}

\* lines 442-448
InvalidAttrs ==
    {"slot", "viewbox", "driverlocation", "cta-type", "icon-placement",
     "data-cmp-hook-image", "data-cmp-is", "data-cmp-widths", "data-cmp-dmimage",
     "data-cmp-src", "data-asset-id", "data-cmp-filereference", "data-cmp-data-layer",
     "data-cmp-aspectratio", "data-cmp-aspectratio-max", "data-cmp-aspectratio-xl",
     "data-cmp-aspectratio-md", "data-cmp-aspectratio-lg", "data-cmp-aspectratio-sm"}

\* attr.startswith('data-cmp') or attr.startswith('data-asset'), for the
\* attribute names that occur in the model
HasVendorPrefix(attr) ==
    attr \in {"data-cmp-hook-image", "data-cmp-is", "data-cmp-widths", "data-cmp-dmimage",
              "data-cmp-src", "data-asset-id", "data-cmp-filereference",
              "data-cmp-data-layer", "data-cmp-aspectratio", "data-cmp-aspectratio-max",
              "data-cmp-aspectratio-xl", "data-cmp-aspectratio-md",
              "data-cmp-aspectratio-lg", "data-cmp-aspectratio-sm",
              "data-cmp-lazy", "data-asset-type"}

\* repr(bytes) shows a byte 0x25 as '%': the contents written with one
PercentContents == {"by%tes"}

\* lines 389-394: the <img> is dropped.  A src that is not an address is the
\* repr of an asset dict (see ProcessImage): it starts with "{" and holds a
\* '%' only where the image bytes do.
BadImgSrc(src) ==
    IF IsAddr(src) THEN
        \/ src.scheme = "data"
        \/ IsRemote(src)
        \/ HasPercentPercent(src)
        \/ (~IsEmptyStr(src) /\ HasPercent(src) /\ ~StartsWithHttp(src))
    ELSE src.content \in PercentContents

\* which elements a removal step decomposes
Doomed(step, n) ==
    CASE step = "svg" -> n.tag = "svg"                               \* 309-310
      [] step = "embedded" -> n.tag \in {"iframe", "video", "audio", "script"}  \* 330-339
      [] step = "img" -> n.tag = "img" /\ BadImgSrc(GetAttr(n, "src", EmptyAddr))     \* 386-396
      [] step = "link" -> n.tag = "link" /\ HasAttr(n, "href")
                              /\ IsRemote(n.attrs["href"])                    \* 399-402
      [] step = "src" -> HasAttr(n, "src") /\ IsRemote(n.attrs["src"])      \* 405-408
      [] step = "empty" -> /\ n.tag \in {"p", "div", "span"}                 \* 437-439
                           /\ KidsText(n.kids) = <<>>
                           /\ FindAll(n.kids, {"img"}) = <<>>
      [] step = "headings" -> n.tag \in Headings
      [] step = "lists" -> n.tag \in ListTags

RECURSIVE DecomposeAll(_, _)
\* for tag in soup.find_all(...): if <test>: tag.decompose()
\* Elements are met in document order, so an element is tested before anything
\* below it is; what is removed with an ancestor is not met any more.
DecomposeAll(kids, step) ==
    IF kids = <<>> THEN <<>>
    ELSE LET n == Head(kids)
         IN (IF IsText(n) THEN <<n>>
             ELSE IF Doomed(step, n) THEN <<>>
             ELSE <<[n EXCEPT !.kids = DecomposeAll(n.kids, step)]>>)
            \o DecomposeAll(Tail(kids), step)

RECURSIVE MathPrune(_)
\* lines 319-327: for child in math_elem.find_all(): a child without text is
\* removed when it has no attributes (321-322) or no element below it
\* (324-327).  The test reads the child before anything below it is removed.
MathPrune(kids) ==
    IF kids = <<>> THEN <<>>
    ELSE LET n == Head(kids)
         IN (IF IsText(n) THEN <<n>>
             ELSE IF KidsText(n.kids) = <<>> /\ n.attrs = NoAttrs THEN <<>>
             ELSE IF Descendants(n.kids) = <<>> /\ KidsText(n.kids) = <<>> THEN <<>>
             ELSE <<[n EXCEPT !.kids = MathPrune(n.kids)]>>)
            \o MathPrune(Tail(kids))

RECURSIVE MathStep(_)
\* lines 313-327 (a <math> inside a <math> is not among the model's inputs)
MathStep(kids) ==
    IF kids = <<>> THEN <<>>
    ELSE LET n == Head(kids)
         IN (IF IsText(n) THEN <<n>>
             ELSE IF n.tag = "math" THEN
                 << [(IF GetAttr(n, "xmlns", "") = ""
                      THEN SetAttr(n, "xmlns", "http://www.w3.org/1998/Math/MathML")
                      ELSE n) EXCEPT !.kids = MathPrune(n.kids)] >>
             ELSE <<[n EXCEPT !.kids = MathStep(n.kids)]>>)
            \o MathStep(Tail(kids))

RECURSIVE SnippetStep(_)
\* lines 342-359: cds-code-snippet becomes <pre><code> or <code>
SnippetStep(kids) ==
    IF kids = <<>> THEN <<>>
    ELSE LET n == Head(kids)
             code_tag == Elem("code", NoAttrs, <<Text(KidsText(n.kids))>>)
         IN (IF IsText(n) THEN <<n>>
             ELSE IF n.tag = "cds-code-snippet" THEN
                 (IF GetAttr(n, "type", "inline") = "multi"
                  THEN <<Elem("pre", NoAttrs, <<code_tag>>)>>
                  ELSE <<code_tag>>)
             ELSE <<[n EXCEPT !.kids = SnippetStep(n.kids)]>>)
            \o SnippetStep(Tail(kids))

\* attribute edits: lines 362-368 (table) and 450-458 (all tags)
StripAttrs(step, n) ==
    [n EXCEPT !.attrs =
        [a \in {b \in DOMAIN n.attrs :
                   IF step = "table"
                   THEN ~(n.tag = "table" /\ b \in {"cellpadding", "cellspacing", "border"})
                   ELSE ~(b \in InvalidAttrs \/ HasVendorPrefix(b))}
         |-> n.attrs[a]]]

RECURSIVE StripAttrsAll(_, _)
StripAttrsAll(kids, step) ==
    IF kids = <<>> THEN <<>>
    ELSE LET n == Head(kids)
         IN (IF IsText(n) THEN <<n>>
             ELSE <<[StripAttrs(step, n) EXCEPT !.kids = StripAttrsAll(n.kids, step)]>>)
            \o StripAttrsAll(Tail(kids), step)

RECURSIVE PictureStep(_)
\* lines 372-383: a <picture> is replaced by the first <img> below it, or
\* removed when there is none
PictureStep(kids) ==
    IF kids = <<>> THEN <<>>
    ELSE LET n == Head(kids)
         IN (IF IsText(n) THEN <<n>>
             ELSE IF n.tag = "picture" THEN
                 (IF FindAll(n.kids, {"img"}) # <<>>
                  THEN <<FindAll(n.kids, {"img"})[1]>> ELSE <<>>)
             ELSE <<[n EXCEPT !.kids = PictureStep(n.kids)]>>)
            \o PictureStep(Tail(kids))

RECURSIVE UnnestHeadings(_, _)
\* lines 413-418 for one heading_level: a heading of that level with a heading
\* below it is replaced by the first such heading, which is then met in its
\* new place (the list of find_all is in document order)
UnnestHeadings(kids, heading_level) ==
    IF kids = <<>> THEN <<>>
    ELSE LET n == Head(kids)
         IN (IF IsText(n) THEN <<n>>
             ELSE IF n.tag = heading_level /\ FindAll(n.kids, Headings) # <<>>
                 THEN UnnestHeadings(<<FindAll(n.kids, Headings)[1]>>, heading_level)
             ELSE <<[n EXCEPT !.kids = UnnestHeadings(n.kids, heading_level)]>>)
            \o UnnestHeadings(Tail(kids), heading_level)

\* the headings below, each without the headings below it (they are extracted
\* one after the other)
HeadingsBelow(kids) ==
    LET hs == FindAll(kids, Headings)
    IN [i \in 1..Len(hs) |-> [hs[i] EXCEPT !.kids = DecomposeAll(hs[i].kids, "headings")]]

RECURSIVE MoveHeadingsOut(_)
\* lines 421-426: every heading below an inline element is put before it
MoveHeadingsOut(kids) ==
    IF kids = <<>> THEN <<>>
    ELSE LET n == Head(kids)
         IN (IF IsText(n) THEN <<n>>
             ELSE IF n.tag \in InlineTags /\ FindAll(n.kids, Headings) # <<>>
                 THEN HeadingsBelow(n.kids)
                      \o <<[n EXCEPT !.kids = DecomposeAll(n.kids, "headings")]>>
             ELSE <<[n EXCEPT !.kids = MoveHeadingsOut(n.kids)]>>)
            \o MoveHeadingsOut(Tail(kids))

ListsBelow(kids) ==
    LET ls == FindAll(kids, ListTags)
    IN [i \in 1..Len(ls) |-> [ls[i] EXCEPT !.kids = DecomposeAll(ls[i].kids, "lists")]]

RECURSIVE MoveListsOut(_)
\* lines 429-434: every list below a heading is put right after the heading
\* (insert_after: the list extracted last comes first)
MoveListsOut(kids) ==
    IF kids = <<>> THEN <<>>
    ELSE LET n == Head(kids)
         IN (IF IsText(n) THEN <<n>>
             ELSE IF n.tag \in Headings /\ FindAll(n.kids, ListTags) # <<>>
                 THEN <<[n EXCEPT !.kids = DecomposeAll(n.kids, "lists")]>>
                      \o Reverse(ListsBelow(n.kids))
             ELSE <<[n EXCEPT !.kids = MoveListsOut(n.kids)]>>)
            \o MoveListsOut(Tail(kids))

\* lines 412-418: the six levels in turn
UnnestAllHeadings(kids) ==
    UnnestHeadings(UnnestHeadings(UnnestHeadings(UnnestHeadings(UnnestHeadings(
        UnnestHeadings(kids, "h1"), "h2"), "h3"), "h4"), "h5"), "h6")

\* clean_html: BeautifulSoup(html), the steps in the order of the source,
\* str(soup)
CleanHtml(html) ==
    LET s1 == DecomposeAll(html, "svg")
        s2 == MathStep(s1)
        s3 == DecomposeAll(s2, "embedded")
        s4 == SnippetStep(s3)
        s5 == StripAttrsAll(s4, "table")
        s6 == PictureStep(s5)
        s7 == DecomposeAll(s6, "img")
        s8 == DecomposeAll(DecomposeAll(s7, "link"), "src")
        s9 == MoveListsOut(MoveHeadingsOut(UnnestAllHeadings(s8)))
        s10 == DecomposeAll(s9, "empty")
        s11 == StripAttrsAll(s10, "attrs")
    IN Serialize(s11)

\* ------------------------------------------------------------ link rewriter
\* soup.find_all('a', href=True)
AnchorsWithHref(kids) ==
    SelectSeq(Descendants(kids), LAMBDA n : n.tag = "a" /\ HasAttr(n, "href"))

\* soup.find(id=target_id) finds an element
HasIdAlways(kids, target_id) == TRUE

HasId(kids, target_id) ==
    \E i \in 1..Len(Descendants(kids)) :
        /\ HasAttr(Descendants(kids)[i], "id")
        /\ Descendants(kids)[i].attrs["id"] = target_id

\* lines 204-224: what clean_links does to a link with this href while the
\* soup is `kids`.  An absent map (None) and an empty one act alike (line 206).
LinkVerdict(href, kids, cmap) ==
    IF StartsWithHttp(href) /\ InIbmThink(href) /\ href \in DOMAIN cmap
        THEN "rewrite"
    ELSE IF \/ href.scheme \in {"javascript", "mailto"}
            \/ HasAdobeCms(href)
            \/ (EndsWithHtml(href) /\ ~StartsWithHttp(href))
        THEN "unwrap"
    ELSE IF IsFragmentOnly(href) /\ ~HasId(kids, href.frag)
        THEN "unwrap"
    ELSE "keep"

RECURSIVE EditLink(_, _, _, _)
\* the soup after link.unwrap() or link['href'] = file_name for the k-th
\* <a href> in document order
EditLink(kids, k, verdict, file_name) ==
    IF kids = <<>> THEN <<>>
    ELSE LET n == Head(kids)
         IN IF IsText(n) THEN <<n>> \o EditLink(Tail(kids), k, verdict, file_name)
            ELSE LET isLink == n.tag = "a" /\ HasAttr(n, "href")
                     below == Len(AnchorsWithHref(n.kids))
                     k1 == IF isLink THEN k - 1 ELSE k
                 IN IF isLink /\ k = 1 THEN
                        (IF verdict = "unwrap" THEN n.kids
                         ELSE <<SetAttr(n, "href", file_name)>>) \o Tail(kids)
                    ELSE IF k1 <= below THEN
                        <<[n EXCEPT !.kids = EditLink(n.kids, k1, verdict, file_name)]>>
                        \o Tail(kids)
                    ELSE <<n>> \o EditLink(Tail(kids), k1 - below, verdict, file_name)

RECURSIVE CleanLinksFrom(_, _, _)
\* the loop of clean_links from the k-th remaining <a href> on: the links are
\* met in document order, each judged against the soup as the earlier
\* iterations left it
CleanLinksFrom(kids, k, cmap) ==
    LET links == AnchorsWithHref(kids)
        href == links[k].attrs["href"]
        verdict == LinkVerdict(href, kids, cmap)
    IN IF k > Len(links) THEN kids
       ELSE IF verdict = "rewrite" THEN
           CleanLinksFrom(EditLink(kids, k, verdict, cmap[href]), k + 1, cmap)
       ELSE IF verdict = "unwrap" THEN
           CleanLinksFrom(EditLink(kids, k, verdict, EmptyAddr), k, cmap)
       ELSE CleanLinksFrom(kids, k + 1, cmap)

\* clean_links(soup, chapter_map); cmap = <<>> is the call without a map
CleanLinks(soup, cmap) == CleanLinksFrom(soup, 1, cmap)

\* process_images(soup) handles the <img> elements in document order; resps
\* are the answers of the server to the requests in the order they are issued.
\* The state of the loop is [kids, cache, requested, resps]: the part of the
\* soup passed so far, the cache, the requests issued, the answers not used.

\* the loop state after the iteration for the element img (line 262)
AfterImage(r, resps) ==
    [kids |-> <<r.img>>, cache |-> r.cache, requested |-> r.requested,
     resps |-> IF r.requested = <<>> THEN resps ELSE Tail(resps)]

\* the loop state after the <img> elements below the element n
AfterKids(n, sub) == [sub EXCEPT !.kids = <<[n EXCEPT !.kids = sub.kids]>>]

\* the loop state after `first` and then `rest`
AfterBoth(first, rest) ==
    [kids |-> first.kids \o rest.kids, cache |-> rest.cache,
     requested |-> first.requested \o rest.requested, resps |-> rest.resps]

RECURSIVE ProcessImages(_, _, _)
RECURSIVE ProcessImagesAfter(_, _)
ProcessImagesAfter(first, kids) ==
    AfterBoth(first, ProcessImages(kids, first.cache, first.resps))

\* process_images over the nodes kids
ProcessImages(kids, cache, resps) ==
    IF kids = <<>> THEN [kids |-> <<>>, cache |-> cache, requested |-> <<>>, resps |-> resps]
    ELSE IF IsText(Head(kids)) THEN
        ProcessImagesAfter([kids |-> <<Head(kids)>>, cache |-> cache, requested |-> <<>>,
                            resps |-> resps], Tail(kids))
    ELSE IF Head(kids).tag = "img" THEN
        ProcessImagesAfter(AfterImage(ProcessImage(Head(kids), cache, Head(resps)), resps),
                           Tail(kids))
    ELSE ProcessImagesAfter(AfterKids(Head(kids), ProcessImages(Head(kids).kids, cache, resps)),
                            Tail(kids))

\* ------------------------------------------------------- document assembler
\* A chapter is [title, file_name, content, properties]; its file_name names
\* it (no two chapters share one).  gen = [chapters, chapter_map] is the state
\* of the EPUBGenerator; chapter_map maps a URL to the file_name of a chapter.

\* f"chapter_{idx:03d}.xhtml"
ChapterFilename(i) ==
    Addr("", "", FALSE,
         << CASE i = 1 -> "chapter_001" [] i = 2 -> "chapter_002"
              [] i = 3 -> "chapter_003" [] i = 4 -> "chapter_004"
              [] i = 5 -> "chapter_005" [] OTHER -> "chapter_???" >>,
         "xhtml", "")

\* f'section_{n:03d}.xhtml'
SectionFilename(n) ==
    Addr("", "", FALSE,
         << CASE n = 1 -> "section_001" [] n = 2 -> "section_002"
              [] n = 3 -> "section_003" [] OTHER -> "section_???" >>,
         "xhtml", "")

\* chapter.file_name.startswith('section_')
IsSectionFile(f) ==
    f.path # <<>> /\ f.path[1] \in {"section_001", "section_002", "section_003", "section_???"}

\* f'#{title.lower().replace(" ", "_")}' for the section titles of the model
HeaderUrl(title) ==
    Addr("", "", FALSE, <<>>, "",
         CASE title = <<"Guides">> -> "guides"
           [] title = <<"Setup">> -> "setup"
           [] OTHER -> "title")

\* lines 879-881: the content of a header page
HeaderContent(title) ==
    << Elem("div", [style |-> "display: flex"],
            << Text(<<"\n">>),
               Elem("h1", [style |-> "font-size: 2em"], <<Text(title)>>),
               Text(<<"\n">>) >>) >>

\* add_chapter(title, content, filename, url)
AddChapter(gen, title, content, filename, url) ==
    LET chapter == [title |-> title, file_name |-> filename,
                    content |-> Serialize(<<Elem("h1", NoAttrs, <<Text(title)>>),
                                            Text(<<"\n">>)>> \o content),
                    properties |-> IF FindAll(content, {"math"}) # <<>>
                                   THEN <<"mathml">> ELSE <<>>]
    IN [chapters |-> Append(gen.chapters, chapter),
        chapter_map |-> IF IsEmptyStr(url) THEN gen.chapter_map
                        ELSE [u \in (DOMAIN gen.chapter_map) \cup {url} |->
                                 IF u = url THEN filename ELSE gen.chapter_map[u]]]

RECURSIVE BuildTocFromStructure(_, _)
\* build_toc_from_structure: a chapter, an epub.Link, or the pair
\* (section chapter or epub.Section, children)
BuildTocFromStructure(toc, gen) ==
    IF toc = <<>> THEN <<>>
    ELSE LET item == Head(toc)
             rest == BuildTocFromStructure(Tail(toc), gen)
         IN IF item.type = "link" THEN
                (IF item.url \in DOMAIN gen.chapter_map
                 THEN <<[kind |-> "chapter", file_name |-> gen.chapter_map[item.url]]>>
                 ELSE <<[kind |-> "link", href |-> item.href, title |-> item.title]>>)
                \o rest
            ELSE IF item.type = "section" THEN
                LET children == BuildTocFromStructure(item.children, gen)
                    found == SelectSeq(gen.chapters,
                                 LAMBDA c : c.title = item.title /\ IsSectionFile(c.file_name))
                    section == IF found # <<>>
                               THEN [kind |-> "chapter", file_name |-> found[1].file_name]
                               ELSE [kind |-> "plain", title |-> item.title]
                IN (IF children # <<>>
                    THEN <<[kind |-> "section", section |-> section, children |-> children]>>
                    ELSE <<>>) \o rest
            ELSE rest

RECURSIVE ExtractChaptersFromToc(_, _)
\* _extract_chapters_from_toc: what it appends to ordered_chapters; names are
\* the keys of the local chapter_map (file names of self.chapters)
ExtractChaptersFromToc(book_toc_items, names) ==
    IF book_toc_items = <<>> THEN <<>>
    ELSE LET item == Head(book_toc_items)
         IN (IF item.kind = "chapter" THEN
                 (IF item.file_name \in names THEN <<item.file_name>> ELSE <<>>)
             ELSE IF item.kind = "section" THEN
                 (IF item.section.kind = "chapter" /\ item.section.file_name \in names
                  THEN <<item.section.file_name>> ELSE <<>>)
                 \o ExtractChaptersFromToc(item.children, names)
             ELSE <<>>)
            \o ExtractChaptersFromToc(Tail(book_toc_items), names)

\* the chapters in the order in which they were added to the book
OrderChaptersAsAdded(book_toc_items, gen) ==
    [i \in 1..Len(gen.chapters) |-> gen.chapters[i].file_name]

OrderChaptersForSpine(book_toc_items, gen) ==
    ExtractChaptersFromToc(book_toc_items,
                           {gen.chapters[i].file_name : i \in 1..Len(gen.chapters)})

\* the spine entry 'nav'
NavItem == Addr("", "", FALSE, <<"nav">>, "xhtml", "")

\* finalize(toc_structure): [toc, spine]; a spine entry is 'nav' or the
\* file_name of a chapter
Finalize(toc, gen) ==
    LET flat == [i \in 1..Len(gen.chapters) |->
                    [kind |-> "chapter", file_name |-> gen.chapters[i].file_name]]
        book_toc_items == IF toc # <<>> THEN BuildTocFromStructure(toc, gen) ELSE flat
    IN [toc |-> book_toc_items,
        spine |-> <<NavItem>> \o
                  (IF toc # <<>> THEN OrderChaptersForSpine(book_toc_items, gen)
                   ELSE [i \in 1..Len(gen.chapters) |-> gen.chapters[i].file_name])]

\* --------------------------------------- specification of the asset resolver
\* The scraper handles one <img> after the other, page after page; the server
\* answers each request as it likes.  A second run starts from an empty cache.
ImgElems ==
    { \* <img src="https://cdn.example.com/x.png">
      Elem("img", [src |-> Addr("https", "cdn.example.com", TRUE, <<"x">>, "png", "")], <<>>),
      \* <img src="//cdn.example.com/x.png" srcset="..." loading="lazy">
      Elem("img", [src |-> Addr("", "cdn.example.com", TRUE, <<"x">>, "png", ""),
                   srcset |-> "data:", loading |-> "lazy"], <<>>),
      \* <img src="/content/y.jpg">
      Elem("img", [src |-> Addr("", "", TRUE, <<"content", "y">>, "jpg", "")], <<>>),
      \* <img src="z">
      Elem("img", [src |-> Addr("", "", FALSE, <<"z">>, "", "")], <<>>) }

Responses ==
    { [ok |-> FALSE] }
    \cup { [ok |-> TRUE, content_type |-> ct, content |-> "bytes"]
           : ct \in {"", "image/jpeg", "image/png"} }

DrvIdle ==
    /\ max_pages = <<>>
    /\ idx = 0
    /\ chapters = <<>>
    /\ chapter_map = <<>>
    /\ page_log = <<>>
    /\ events = <<>>
    /\ chapters_pass1 = <<>>
    /\ book_images = {}
    /\ book_toc = <<>>
    /\ spine = <<>>

TocIdle ==
    /\ nav = <<>>
    /\ toc_structure = <<>>
    /\ toc_items = <<>>
    /\ processed_urls = {}
    /\ limited = [result |-> <<>>, input |-> <<>>]
    /\ toc_arg = <<>>

HtmlIdle ==
    /\ html_in = <<>>
    /\ html_out = <<>>
    /\ html_out2 = <<>>

ImgIdle ==
    /\ downloaded_images = <<>>
    /\ downloads = <<>>
    /\ refs = <<>>
    /\ img_page = 0
    /\ prev_images = <<>>
    /\ img_budget = 0

ImgInit ==
    /\ pc = "img_run1"
    /\ downloaded_images = <<>>
    /\ downloads = <<>>
    /\ refs = <<>>
    /\ img_page = 1
    /\ prev_images = <<>>
    /\ img_budget = MaxImgRefs
    /\ TocIdle
    /\ HtmlIdle
    /\ DrvIdle

\* the loop of process_images reaches the next <img> of the page
ImgStep ==
    /\ pc \in {"img_run1", "img_run2"}
    /\ img_budget > 0
    /\ \E img \in ImgElems : \E resp \in Responses :
          LET r == ProcessImage(img, downloaded_images, resp)
          IN /\ downloaded_images' = r.cache
             /\ downloads' = downloads \o r.requested
             /\ refs' = Append(refs, [page |-> img_page,
                                      url |-> Urljoin(BaseUrl, GetAttr(img, "src", EmptyAddr)),
                                      img |-> r.img])
    /\ img_budget' = img_budget - 1
    /\ UNCHANGED <<pc, img_page, prev_images, tocVars, htmlVars, drvVars>>

\* process_images returns; the driver calls it again for the next page
ImgNextPage ==
    /\ pc \in {"img_run1", "img_run2"}
    /\ refs # <<>> /\ refs[Len(refs)].page = img_page
    /\ img_page' = img_page + 1
    /\ UNCHANGED <<pc, downloaded_images, downloads, refs, prev_images, img_budget, tocVars, htmlVars, drvVars>>

\* the program is run again on the same guide: a new scraper, an empty cache
ImgRerun ==
    /\ pc = "img_run1"
    /\ pc' = "img_run2"
    /\ prev_images' = downloaded_images
    /\ downloaded_images' = <<>>
    /\ downloads' = <<>>
    /\ refs' = <<>>
    /\ img_page' = 1
    /\ UNCHANGED <<img_budget, tocVars, htmlVars, drvVars>>

ImgNext == ImgStep \/ ImgNextPage \/ ImgRerun

SpecImages == ImgInit /\ [][ImgNext]_vars

\* ------------------------------------------------- specification of the TOC
\* The navigation markup is built item by item (document order), then parsed;
\* the two TOC operations are applied to the parsed tree.
Href_a == Addr("", "", TRUE, <<"think", "topics", "a">>, "", "")
Href_b == Addr("", "", TRUE, <<"think", "topics", "b">>, "", "")

NavLeafKinds ==
    { NavLi(0, << [href |-> Href_a, title |-> <<"Intro">>, acls |-> 0] >>, <<>>, <<>>),
      NavLi(0, << [href |-> Href_b, title |-> <<"Setup">>, acls |-> 0] >>, <<>>, <<>>),
      NavLi(0, <<>>, << <<"svg", "Caret right", "Guides">> >>, <<>>),
      \* an anchor without an address and no collapsible span: dropped
      NavLi(0, << [href |-> EmptyAddr, title |-> <<"Intro">>, acls |-> 0] >>, <<>>, <<>>) }

RECURSIVE NavCount(_)
NavCount(lis) ==
    IF lis = <<>> THEN 0 ELSE 1 + NavCount(Head(lis).ul) + NavCount(Tail(lis))

RECURSIVE NavSpineDepth(_)
\* how many nested lists end with the last item of the markup
NavSpineDepth(lis) ==
    IF lis = <<>> THEN 0
    ELSE IF lis[Len(lis)].span = <<>> THEN 1
    ELSE 1 + NavSpineDepth(lis[Len(lis)].ul)

SetLevel(li, level) ==
    [li EXCEPT !.cls = level,
               !.a = IF li.a = <<>> THEN <<>> ELSE << [li.a[1] EXCEPT !.acls = level] >>]

RECURSIVE NavAppendAt(_, _, _, _)
\* the markup with `li` added at the end of the list nested d levels deep
NavAppendAt(lis, d, li, level) ==
    IF d = 0 THEN Append(lis, SetLevel(li, level))
    ELSE [lis EXCEPT ![Len(lis)].ul = NavAppendAt(@, d - 1, li, level + 1)]

TocInit ==
    /\ pc = "toc_build"
    /\ nav = <<>>
    /\ toc_structure = <<>>
    /\ toc_items = <<>>
    /\ processed_urls = {}
    /\ limited = [result |-> <<>>, input |-> <<>>]
    /\ toc_arg = <<>>
    /\ ImgIdle
    /\ HtmlIdle
    /\ DrvIdle

TocWrite ==
    /\ pc = "toc_build"
    /\ NavCount(nav) < MaxNavItems
    /\ \E li \in NavLeafKinds : \E d \in 0..NavSpineDepth(nav) :
           nav' = NavAppendAt(nav, d, li, 0)
    /\ UNCHANGED <<pc, toc_structure, toc_items, processed_urls, limited, toc_arg>>
    /\ UNCHANGED <<imgVars, htmlVars, drvVars>>

TocParse ==
    /\ pc = "toc_build"
    /\ toc_structure' = ParseNavigationLevel(nav, 0)
    /\ pc' = "toc_parsed"
    /\ UNCHANGED <<nav, toc_items, processed_urls, limited, toc_arg>>
    /\ UNCHANGED <<imgVars, htmlVars, drvVars>>

TocFlatten ==
    /\ pc = "toc_parsed"
    /\ toc_items' = FlattenTocStructure(toc_structure)
    /\ pc' = "toc_flat"
    /\ UNCHANGED <<nav, toc_structure, processed_urls, limited, toc_arg>>
    /\ UNCHANGED <<imgVars, htmlVars, drvVars>>

TocUrls == {Urljoin(BaseUrl, Href_a), Urljoin(BaseUrl, Href_b)}

TocLimit ==
    /\ pc = "toc_flat"
    /\ \E urls \in SUBSET TocUrls :
          /\ processed_urls' = urls
          /\ toc_arg' = toc_structure
          /\ limited' = LimitTocStructure(toc_structure, urls)
    /\ pc' = "toc_limited"
    /\ UNCHANGED <<nav, toc_structure, toc_items>>
    /\ UNCHANGED <<imgVars, htmlVars, drvVars>>

TocNext == TocWrite \/ TocParse \/ TocFlatten \/ TocLimit

SpecToc == TocInit /\ [][TocNext]_vars

\* ------------------------------------------- specification of the sanitizer
\* A content fragment is written node by node, then clean_html is applied to
\* it and to its own output.
HtmlLeaves ==
    { Text(<<"x">>), Text(<<" ">>),
      Elem("math", NoAttrs, <<>>),
      Elem("mrow", [class |-> "r"], <<>>),
      Elem("mi", NoAttrs, <<>>),
      Elem("p", NoAttrs, <<>>),
      Elem("span", [id |-> "t", slot |-> "s"], <<>>),
      Elem("div", [id |-> "d"], <<>>),
      Elem("h1", NoAttrs, <<>>),
      Elem("h2", NoAttrs, <<>>),
      Elem("a", [href |-> Addr("", "", FALSE, <<>>, "", "t")], <<>>),
      Elem("ul", NoAttrs, <<>>),
      Elem("picture", NoAttrs, <<>>),
      Elem("img", [src |-> Addr("", "", FALSE, <<"images", "img_981f77fb3d45">>, "png", "")], <<>>),
      Elem("img", [src |-> Addr("https", "cdn.example.com", TRUE, <<"x">>, "png", "")], <<>>),
      Elem("svg", [id |-> "t"], <<>>),
      Elem("cds-code-snippet", [type |-> "multi"], <<>>),
      Elem("table", [border |-> "1"], <<>>) }

\* elements the parser gives no children
VoidTags == {"img", "source", "link", "br"}

\* tags that end an open <p>, and headings that end an open heading, when
\* the parser meets them directly inside it
BlockTags == {"p", "div", "ul", "ol", "table", "h1", "h2", "h3", "h4", "h5", "h6"}

\* the parser can deliver `child` as a child of an element `parent`
CanHold(parent, child) ==
    /\ parent \notin VoidTags \cup {"#text"}
    /\ parent = "p" => child \notin BlockTags
    /\ parent \in Headings => child \notin Headings
    /\ parent = "a" => child # "a"

RECURSIVE NodeCount(_)
NodeCount(kids) ==
    IF kids = <<>> THEN 0 ELSE 1 + (IF IsText(Head(kids)) THEN 0 ELSE NodeCount(Head(kids).kids))
                                 + NodeCount(Tail(kids))

RECURSIVE LastPath(_)
\* the tags from the last top-level node down along last children
LastPath(kids) ==
    IF kids = <<>> THEN <<>>
    ELSE LET n == kids[Len(kids)]
         IN <<n.tag>> \o (IF IsText(n) THEN <<>> ELSE LastPath(n.kids))

RECURSIVE AppendAt(_, _, _)
\* the fragment with node added as the last child d levels down the last path
AppendAt(kids, d, node) ==
    IF d = 0 THEN Append(kids, node)
    ELSE [kids EXCEPT ![Len(kids)].kids = AppendAt(@, d - 1, node)]

RECURSIVE LastKids(_, _)
\* the children list d levels down the last path
LastKids(kids, d) ==
    IF d = 0 THEN kids ELSE LastKids(kids[Len(kids)].kids, d - 1)

\* the parser never delivers two adjacent text nodes
TextAfterText(kids, d, node) ==
    LET ks == LastKids(kids, d)
    IN IsText(node) /\ ks # <<>> /\ IsText(ks[Len(ks)])

HtmlInit ==
    /\ pc = "html_write"
    /\ HtmlIdle
    /\ TocIdle
    /\ ImgIdle
    /\ DrvIdle

HtmlWrite ==
    /\ pc = "html_write"
    /\ NodeCount(html_in) < MaxHtmlNodes
    /\ \E node \in HtmlLeaves : \E d \in 0..Len(LastPath(html_in)) :
          /\ d > 0 => CanHold(LastPath(html_in)[d], node.tag)
          /\ ~TextAfterText(html_in, d, node)
          /\ html_in' = AppendAt(html_in, d, node)
    /\ UNCHANGED <<pc, html_out, html_out2, tocVars, imgVars, drvVars>>

HtmlClean ==
    /\ pc = "html_write"
    /\ html_out' = CleanHtml(html_in)
    /\ pc' = "html_cleaned"
    /\ UNCHANGED <<html_in, html_out2, tocVars, imgVars, drvVars>>

HtmlCleanAgain ==
    /\ pc = "html_cleaned"
    /\ html_out2' = CleanHtml(html_out)
    /\ pc' = "html_cleaned_twice"
    /\ UNCHANGED <<html_in, html_out, tocVars, imgVars, drvVars>>

HtmlNext == HtmlWrite \/ HtmlClean \/ HtmlCleanAgain

SpecSanitize == HtmlInit /\ [][HtmlNext]_vars

\* ------------------------------------------- specification of the driver
\* main(url, output, delay, max_pages) on the guide at BaseUrl.  The server
\* answers every fetch as it likes; max_pages is given or not.

\* the length of a string of markup is its lead (whitespace in front), its
\* size (from the first to the last character that is not whitespace) and its
\* trail (whitespace at the end)
StrLen(content) == content.lead + content.size + content.trail

\* content.strip()
StripContent(content) == [content EXCEPT !.lead = 0, !.trail = 0]

SkipPageNever(content) == FALSE

\* line 904: not content or len(content.strip()) < 100
SkipPage(content) ==
    StrLen(content) = 0 \/ StrLen(StripContent(content)) < MinContentLen

Abs_b == Urljoin(BaseUrl, Href_b)

Article(kids) == Elem("div", [class |-> "body-article-8"], kids)

Link(href) == Elem("a", [href |-> href], <<Text(<<"x">>)>>)

\* What extract_content returns for a fetched page: str(article), which
\* starts with "<" and ends with ">".  body is the markup the later steps act
\* on, its prose shortened to "x"; size is the length of the whole string.
PageContents ==
    { \* too short by one character
      [lead |-> 0, size |-> MinContentLen - 1, trail |-> 0,
       body |-> <<Article(<<Elem("p", NoAttrs, <<Text(<<"x">>)>>)>>)>>],
      \* links to the page b: absolute, root-relative; an external link
      [lead |-> 0, size |-> MinContentLen, trail |-> 0,
       body |-> <<Article(<<Elem("p", NoAttrs,
                    << Link(Abs_b), Link(Href_b),
                       Link(Addr("https", "example.org", TRUE, <<"p">>, "", "")) >>)>>)>>],
      \* fragment links: to an empty <span id="t">, to a <div id="d"> with text
      [lead |-> 0, size |-> MinContentLen + 1, trail |-> 0,
       body |-> <<Article(<< Elem("p", NoAttrs,
                                  << Link(Addr("", "", FALSE, <<>>, "", "t")),
                                     Link(Addr("", "", FALSE, <<>>, "", "d")) >>),
                             Elem("span", [id |-> "t"], <<>>),
                             Elem("div", [id |-> "d"], <<Text(<<"x">>)>>) >>)>>],
      \* links pass 1 turns into text: mailto:, a relative .html, a fragment
      \* without target
      [lead |-> 0, size |-> MinContentLen + 2, trail |-> 0,
       body |-> <<Article(<<Elem("p", NoAttrs,
                    << Link(Addr("mailto", "", FALSE, <<"team@example.org">>, "", "")),
                       Link(Addr("", "", FALSE, <<"page">>, "html", "")),
                       Link(Addr("", "", FALSE, <<>>, "", "zz")) >>)>>)>>],
      \* the same image twice
      [lead |-> 0, size |-> MinContentLen + 3, trail |-> 0,
       body |-> <<Article(<<
                    Elem("p", NoAttrs, <<Text(<<"x">>)>>),
                    Elem("img", [src |-> Addr("", "", TRUE, <<"content", "y">>, "jpg", "")], <<>>),
                    Elem("img", [src |-> Addr("", "", TRUE, <<"content", "y">>, "jpg", "")], <<>>)
                 >>)>>],
      \* a fragment link to a link that carries the id and itself points to an
      \* empty <span id="s">
      [lead |-> 0, size |-> MinContentLen + 4, trail |-> 0,
       body |-> <<Article(<< Elem("p", NoAttrs,
                                  << Link(Addr("", "", FALSE, <<>>, "", "t")),
                                     Elem("a", [id |-> "t",
                                                href |-> Addr("", "", FALSE, <<>>, "", "s")],
                                          <<Text(<<"x">>)>>) >>),
                             Elem("span", [id |-> "s"], <<>>) >>)>>] }

\* get_page(page_url): None, or a page whose extracted content is `content`
PageFetches ==
    { [ok |-> FALSE] } \cup { [ok |-> TRUE, content |-> c] : c \in PageContents }

PageResponses ==
    { [ok |-> FALSE], [ok |-> TRUE, content_type |-> "image/png", content |-> "bytes"] }

ImgCount(page) == IF page.ok THEN Len(FindAll(page.content.body, {"img"})) ELSE 0

NavLink(level, href, title) ==
    NavLi(level, << [href |-> href, title |-> title, acls |-> level] >>, <<>>, <<>>)

Href_guide_a == Addr("", "", FALSE, <<"a">>, "", "")

\* get_page(url) for the starting page: None, or a page with its title and
\* its sidebar: "primary" = a <nav class="cmp-side-navigation"> with the <li>
\* items nav, "fallback" = only some other <nav>/<aside> classed sidebar, nav
\* or toc, "none" = neither
MainFetches ==
    { [ok |-> FALSE],
      [ok |-> TRUE, title |-> <<"Guide">>, sidebar |-> "none", nav |-> <<>>],
      [ok |-> TRUE, title |-> <<"Guide">>, sidebar |-> "fallback", nav |-> <<>>],
      \* two pages
      [ok |-> TRUE, title |-> <<"Guide">>, sidebar |-> "primary",
       nav |-> << NavLink(0, Href_a, <<"Intro">>), NavLink(0, Href_b, <<"Setup">>) >>],
      \* a section without a page of its own
      [ok |-> TRUE, title |-> <<"Guide">>, sidebar |-> "primary",
       nav |-> << NavLi(0, <<>>, << <<"svg", "Guides">> >>,
                        << NavLink(1, Href_a, <<"Intro">>), NavLink(1, Href_b, <<"Setup">>) >>) >>],
      \* a section with a page of its title; the page a listed twice (the
      \* second time by a relative address)
      [ok |-> TRUE, title |-> <<"Guide">>, sidebar |-> "primary",
       nav |-> << NavLi(0, <<>>, << <<"Setup">> >>, << NavLink(1, Href_a, <<"Intro">>) >>),
                  NavLink(0, Href_b, <<"Setup">>),
                  NavLink(0, Href_guide_a, <<"Again">>) >>],
      \* a page, then a section without a page of its own
      [ok |-> TRUE, title |-> <<"Guide">>, sidebar |-> "primary",
       nav |-> << NavLink(0, Href_a, <<"Intro">>),
                  NavLi(0, <<>>, << <<"Guides">> >>, << NavLink(1, Href_b, <<"Setup">>) >>) >>],
      \* a section without any link below it, then a page
      [ok |-> TRUE, title |-> <<"Guide">>, sidebar |-> "primary",
       nav |-> << NavLi(0, <<>>, << <<"Guides">> >>, <<>>),
                  NavLink(0, Href_a, <<"Intro">>) >>],
      \* two sections with the same title
      [ok |-> TRUE, title |-> <<"Guide">>, sidebar |-> "primary",
       nav |-> << NavLi(0, <<>>, << <<"Guides">> >>, << NavLink(1, Href_a, <<"Intro">>) >>),
                  NavLi(0, <<>>, << <<"Guides">> >>, << NavLink(1, Href_b, <<"Setup">>) >>) >>] }

\* extract_toc_from_sidebar: [raised, toc].  With only the fallback sidebar,
\* find_all returns a ResultSet, and _parse_navigation_level calls .find on it.
ExtractTocFromSidebar(main_page) ==
    IF main_page.sidebar = "primary"
        THEN [raised |-> FALSE, toc |-> ParseNavigationLevel(main_page.nav, 0)]
    ELSE IF main_page.sidebar = "fallback"
        THEN [raised |-> TRUE, toc |-> <<>>]
    ELSE [raised |-> FALSE, toc |-> <<>>]

RECURSIVE AddHeaderChapters(_, _, _, _)
\* lines 866-887: a header page for every top-level section whose title is
\* not the title of a page to process; n = len(header_chapters)
AddHeaderChapters(items, pages, gen, n) ==
    IF items = <<>> THEN gen
    ELSE LET item == Head(items)
             section_has_page ==
                 \E i \in 1..Len(pages) :
                     pages[i].type = "link" /\ pages[i].title = item.title
             added == AddChapter(gen, item.title, <<>>, SectionFilename(n + 1),
                                 HeaderUrl(item.title))
             header == [added EXCEPT !.chapters[Len(added.chapters)].content =
                                         HeaderContent(item.title)]
         IN IF item.type = "section" /\ item.level = 0 /\ ~section_has_page
            THEN AddHeaderChapters(Tail(items), pages, header, n + 1)
            ELSE AddHeaderChapters(Tail(items), pages, gen, n)

\* lines 816-887 for a fetched starting page: the TOC, the pages to process
\* and the generator with the header pages
PlanPages(main_page, cap) ==
    LET parsed == ExtractTocFromSidebar(main_page).toc
        toc0 == IF parsed = <<>>
                THEN << [title |-> main_page.title, url |-> BaseUrl, href |-> EmptyAddr,
                         type |-> "link", level |-> 0] >>
                ELSE parsed
        items0 == FlattenTocStructure(toc0)
        capped == cap # <<>> /\ Len(items0) > cap[1]
        items == IF capped THEN SubSeq(items0, 1, cap[1]) ELSE items0
        urls == {items[i].url : i \in 1..Len(items)}
        toc == IF capped THEN LimitTocStructure(toc0, urls).result ELSE toc0
    IN [toc_structure |-> toc, toc_items |-> items,
        processed_urls |-> IF capped THEN urls ELSE {},
        gen |-> AddHeaderChapters(toc, items, [chapters |-> <<>>, chapter_map |-> <<>>], 0)]

\* lines 912-921: clean_links without a map, clean_html and add_chapter for
\* the page whose images are processed: [gen, cache, requested]
AddPage(item, i, images, gen) ==
    [gen |-> AddChapter(gen, item.title, CleanHtml(Serialize(CleanLinks(images.kids, <<>>))),
                        ChapterFilename(i), item.url),
     cache |-> images.cache, requested |-> images.requested]

\* lines 908-921: the body of the page loop for a page that is not skipped
ProcessPage(item, i, content, resps, gen, cache) ==
    AddPage(item, i, ProcessImages(content.body, cache, resps), gen)

DrvInit ==
    /\ pc = "start"
    /\ DrvIdle
    /\ TocIdle
    /\ ImgIdle
    /\ HtmlIdle

\* lines 806-887: the starting page is fetched, the TOC is extracted,
\* flattened and capped, the header pages are added
DrvStart ==
    /\ pc = "start"
    /\ \E main_page \in MainFetches : \E cap \in {<<>>} \cup {<<n>> : n \in 0..MaxPagesCap} :
          /\ max_pages' = cap
          /\ IF ~main_page.ok THEN
                 /\ pc' = "aborted"
                 /\ UNCHANGED <<toc_structure, toc_items, processed_urls, chapters,
                                chapter_map, idx>>
             ELSE IF ExtractTocFromSidebar(main_page).raised THEN
                 /\ pc' = "crashed"
                 /\ UNCHANGED <<toc_structure, toc_items, processed_urls, chapters,
                                chapter_map, idx>>
             ELSE LET plan == PlanPages(main_page, cap)
                  IN /\ pc' = "pages"
                     /\ toc_structure' = plan.toc_structure
                     /\ toc_items' = plan.toc_items
                     /\ processed_urls' = plan.processed_urls
                     /\ chapters' = plan.gen.chapters
                     /\ chapter_map' = plan.gen.chapter_map
                     /\ idx' = 1
          /\ events' = <<[type |-> "fetch_main", ok |-> main_page.ok]>>
    /\ UNCHANGED <<nav, limited, toc_arg, imgVars, htmlVars>>
    /\ UNCHANGED <<page_log, chapters_pass1, book_images, book_toc, spine>>

\* the loop left at the first failed fetch
NextItemOrBreak(i, fetched, n) == IF fetched THEN i + 1 ELSE n + 1

\* lines 890 and 898-900: the for loop over enumerate(toc_items, 1) goes on
\* with the next item, after a failed fetch (continue) as after any other
\* page; n = len(toc_items)
NextItem(i, fetched, n) == i + 1

\* lines 890-926: one iteration of the page loop
DrvPage ==
    /\ pc = "pages"
    /\ idx <= Len(toc_items)
    /\ \E page \in PageFetches : \E resps \in [1..ImgCount(page) -> PageResponses] :
          /\ page_log' = Append(page_log,
                             [idx |-> idx, url |-> toc_items[idx].url, fetched |-> page.ok,
                              stripped |-> IF page.ok
                                           THEN StrLen(StripContent(page.content))
                                           ELSE 0])
          /\ IF ~page.ok \/ SkipPage(page.content) THEN
                 \* lines 897-906: continue
                 /\ events' = Append(events, [type |-> "fetch", ok |-> page.ok])
                 /\ UNCHANGED <<chapters, chapter_map, downloaded_images, downloads>>
             ELSE
                 \E done \in {ProcessPage(toc_items[idx], idx, page.content, resps,
                                           [chapters |-> chapters, chapter_map |-> chapter_map],
                                           downloaded_images)} :
                    /\ chapters' = done.gen.chapters
                    /\ chapter_map' = done.gen.chapter_map
                    /\ downloaded_images' = done.cache
                    /\ downloads' = downloads \o done.requested
                    /\ events' = Append(events, [type |-> "fetch", ok |-> page.ok])
                                 \o (IF idx < Len(toc_items)
                                     THEN <<[type |-> "sleep", ok |-> TRUE]>> ELSE <<>>)
          /\ idx' = NextItem(idx, page.ok, Len(toc_items))
    /\ UNCHANGED <<pc, max_pages, chapters_pass1, book_images, book_toc, spine>>
    /\ UNCHANGED <<tocVars, htmlVars, refs, img_page, prev_images, img_budget>>

\* lines 930-944: the images are added to the book, then clean_links runs on
\* the content of every chapter with the chapter map
DrvRewriteLinks ==
    /\ pc = "pages"
    /\ idx > Len(toc_items)
    /\ book_images' = {[file_name |-> downloaded_images[u].filename,
                        media_type |-> downloaded_images[u].media_type]
                          : u \in DOMAIN downloaded_images}
    /\ chapters_pass1' = chapters
    /\ chapters' = [i \in 1..Len(chapters) |->
                       IF chapters[i].content # <<>>
                       THEN [chapters[i] EXCEPT
                                !.content = Serialize(CleanLinks(@, chapter_map))]
                       ELSE chapters[i]]
    /\ pc' = "finalize"
    /\ UNCHANGED <<max_pages, idx, chapter_map, page_log, events, book_toc, spine>>
    /\ UNCHANGED <<tocVars, imgVars, htmlVars>>

\* lines 948-949: finalize(toc_structure) and write
DrvFinalize ==
    /\ pc = "finalize"
    /\ LET book == Finalize(toc_structure, [chapters |-> chapters, chapter_map |-> chapter_map])
       IN /\ book_toc' = book.toc
          /\ spine' = book.spine
    /\ pc' = "done"
    /\ UNCHANGED <<max_pages, idx, chapters, chapter_map, page_log, events,
                   chapters_pass1, book_images>>
    /\ UNCHANGED <<tocVars, imgVars, htmlVars>>

Next == DrvStart \/ DrvPage \/ DrvRewriteLinks \/ DrvFinalize

Spec == DrvInit /\ [][Next]_vars

\* A step of the program as it shows on pc and idx alone. On the behaviours
\* of Spec it is the same step as Next: every action of Next changes pc or
\* idx, and Next is enabled exactly when pc is start, pages or finalize (the
\* guards of DrvStart, DrvPage, DrvRewriteLinks and DrvFinalize). Its
\* enabledness does not depend on the contents of the pages.
Advance ==
    /\ pc \in {"start", "pages", "finalize"}
    /\ \E p \in {"aborted", "crashed", "pages", "finalize", "done"} : pc' = p
    /\ \E i \in {idx} \cup (0..(Len(toc_items) + 1)) : idx' = i

\* The program is one sequential thread and every step ends (each fetch is a
\* blocking call with timeout=30, line 34), so a run does not stop while a
\* step is left to take.
FairSpec == DrvInit /\ [][Next]_vars /\ WF_<<pc, idx>>(Advance)

\* ------------------------------------------------------------ claims C1, C2
RECURSIVE TocNodes(_)
\* every node of a TOC tree, at any depth
TocNodes(items) ==
    UNION { {items[i]} \cup (IF "children" \in DOMAIN items[i]
                             THEN TocNodes(items[i].children) ELSE {})
            : i \in 1..Len(items) }

RECURSIVE LinkPaths(_)
\* the index paths (child numbers from the root) that lead to a Link node
LinkPaths(items) ==
    UNION { IF items[i].type = "link" THEN {<<i>>}
            ELSE {<<i>> \o p : p \in LinkPaths(items[i].children)}
            : i \in 1..Len(items) }

RECURSIVE NodeAt(_, _)
NodeAt(items, path) ==
    IF Len(path) = 1 THEN items[path[1]]
    ELSE NodeAt(items[path[1]].children, Tail(path))

RECURSIVE PathBefore(_, _)
\* p comes before q in document order (p is never a prefix of q here: both
\* lead to leaves)
PathBefore(p, q) ==
    /\ p # <<>> /\ q # <<>>
    /\ \/ p[1] < q[1]
       \/ p[1] = q[1] /\ PathBefore(Tail(p), Tail(q))

\* C1: the flattened TOC is exactly the Link nodes of the parsed tree, one per
\* occurrence, in depth-first document order; it holds no Section node.
C1_FlattenIsLinksInDocumentOrder ==
    pc \in {"toc_flat", "toc_limited"} =>
        LET paths == LinkPaths(toc_structure)
        IN /\ Len(toc_items) = Cardinality(paths)
           /\ \A k \in 1..Len(toc_items) : toc_items[k].type = "link"
           /\ \A p \in paths :
                 toc_items[1 + Cardinality({q \in paths : PathBefore(q, p)})]
                     = NodeAt(toc_structure, p)

\* a section nested in a section holds a link, and a different link follows
\* higher up
C1_Witness ==
    /\ pc = "toc_flat"
    /\ Len(toc_items) >= 2
    /\ \E p \in LinkPaths(toc_structure) : Len(p) = 3
    /\ \E p, q \in LinkPaths(toc_structure) :
          /\ Len(p) > Len(q) /\ PathBefore(p, q)
          /\ NodeAt(toc_structure, p).url # NodeAt(toc_structure, q).url

\* C2: the limited tree has no Section with an empty children list at any
\* depth, only Links whose url is in the allow-set, and the call leaves its
\* argument as it was.
C2_LimitPrunesAndPreserves ==
    pc = "toc_limited" =>
        /\ \A n \in TocNodes(limited.result) :
              /\ n.type = "section" => n.children # <<>>
              /\ n.type = "link" => n.url \in processed_urls
        /\ limited.input = toc_arg

\* the argument holds a section with no link at all and a section whose
\* links are all filtered out, and something is retained
C2_Witness ==
    /\ pc = "toc_limited"
    /\ limited.result # <<>>
    /\ \E n \in TocNodes(toc_arg) : n.type = "section" /\ n.children = <<>>
    /\ \E n \in TocNodes(toc_arg) :
          /\ n.type = "section"
          /\ FlattenTocStructure(n.children) # <<>>
          /\ \A k \in 1..Len(FlattenTocStructure(n.children)) :
                FlattenTocStructure(n.children)[k].url \notin processed_urls

\* -------------------------------------------------------- claims C3 .. C6
\* the requests issued for URL u, in order
RequestsFor(u) == SelectSeq(downloads, LAMBDA d : d.url = u)

RefsOf(u) == {i \in 1..Len(refs) : refs[i].url = u}

\* C3: when one absolute URL is referenced by two <img> elements and its
\* download succeeds, exactly one download is made and both elements carry
\* the same local name, the cached asset's file name, as their src.
C3_TwoReferencesShareLocalName ==
    \A i, j \in 1..Len(refs) :
        LET u == refs[i].url
        IN (/\ i < j
            /\ refs[j].url = u
            /\ RequestsFor(u) # <<>>
            /\ RequestsFor(u)[1].resp.ok)
           => /\ Len(RequestsFor(u)) = 1
              /\ refs[i].img.attrs.src = downloaded_images[u].filename
              /\ refs[j].img.attrs.src = downloaded_images[u].filename

\* C4 as stated: over the whole crawl no URL is requested twice, whether the
\* first request succeeded or failed.
C4_AtMostOneAttemptPerUrl ==
    \A k, m \in 1..Len(downloads) :
        k < m => downloads[k].url # downloads[m].url

\* C4 as amended: every <img> handled issues at most one request; no URL is
\* requested again after a request for it succeeded (so at most one request
\* per URL succeeds), and the URLs with an asset record are exactly those with
\* a successful request.  A URL whose request failed is requested again at
\* its next reference.
C4_NoRequestAfterSuccess ==
    /\ \A k, m \in 1..Len(downloads) :
          (k < m /\ downloads[k].resp.ok) => downloads[k].url # downloads[m].url
    /\ \A i \in 1..Len(refs) :
          LET u == refs[i].url
          IN /\ Len(RequestsFor(u)) <= Cardinality(RefsOf(u))
             /\ (\E k \in 1..Len(downloads) : downloads[k].url = u /\ downloads[k].resp.ok)
                    <=> u \in DOMAIN downloaded_images
             /\ u \notin DOMAIN downloaded_images
                    => Len(RequestsFor(u)) = Cardinality(RefsOf(u))

\* a URL is referenced three times: the first request fails, the second
\* succeeds, the third reference is served from the cache
C4_Witness ==
    \E i \in 1..Len(refs) :
        /\ Cardinality(RefsOf(refs[i].url)) = 3
        /\ Len(RequestsFor(refs[i].url)) = 2
        /\ ~RequestsFor(refs[i].url)[1].resp.ok
        /\ RequestsFor(refs[i].url)[2].resp.ok

BothRuns == (DOMAIN prev_images) \cap (DOMAIN downloaded_images)

\* C5 as stated: two runs that process the same absolute URL assign the same
\* local name, whatever the server answered in each run.
C5_NameFromUrlAlone ==
    pc = "img_run2" =>
        \A u \in BothRuns : prev_images[u].filename = downloaded_images[u].filename

\* C5 as amended: the names two runs assign to one absolute URL differ at most
\* in the extension, and are the same whenever the media type inferred from
\* the response is the same in both runs.
C5_NameFromUrlAndType ==
    pc = "img_run2" =>
        \A u \in BothRuns :
            /\ prev_images[u].filename.path = downloaded_images[u].filename.path
            /\ [prev_images[u].filename EXCEPT !.ext = ""]
                   = [downloaded_images[u].filename EXCEPT !.ext = ""]
            /\ prev_images[u].media_type = downloaded_images[u].media_type
                   => prev_images[u].filename = downloaded_images[u].filename

\* both runs downloaded one URL and the server named a different type in
\* the second run
C5_Witness ==
    /\ pc = "img_run2"
    /\ \E u \in BothRuns : prev_images[u].media_type # downloaded_images[u].media_type

\* the inference C6 describes: the header decides when it names a recognized
\* type, then the URL's extension, then JPEG
InferTypeHeaderFirst(content_type, img_url) ==
    IF CtContains(content_type, "image/jpeg") THEN [ext |-> "jpg", media_type |-> "image/jpeg"]
    ELSE IF CtContains(content_type, "image/png") THEN [ext |-> "png", media_type |-> "image/png"]
    ELSE IF CtContains(content_type, "image/gif") THEN [ext |-> "gif", media_type |-> "image/gif"]
    ELSE IF CtContains(content_type, "image/svg") THEN [ext |-> "svg", media_type |-> "image/svg+xml"]
    ELSE IF CtContains(content_type, "image/webp") THEN [ext |-> "webp", media_type |-> "image/webp"]
    ELSE IF UrlEndsWith(img_url, {"jpg", "jpeg"}) THEN [ext |-> "jpg", media_type |-> "image/jpeg"]
    ELSE IF UrlEndsWith(img_url, {"png"}) THEN [ext |-> "png", media_type |-> "image/png"]
    ELSE IF UrlEndsWith(img_url, {"gif"}) THEN [ext |-> "gif", media_type |-> "image/gif"]
    ELSE IF UrlEndsWith(img_url, {"svg"}) THEN [ext |-> "svg", media_type |-> "image/svg+xml"]
    ELSE IF UrlEndsWith(img_url, {"webp"}) THEN [ext |-> "webp", media_type |-> "image/webp"]
    ELSE [ext |-> "jpg", media_type |-> "image/jpeg"]


\* C6: the extension and media type of a downloaded image are those the
\* content-type header names whenever it names a recognized type; the URL's
\* extension decides only otherwise, and JPEG is the default.
C6_HeaderDecidesType ==
    \A k \in 1..Len(downloads) :
        downloads[k].resp.ok =>
            LET u == downloads[k].url
                t == InferTypeHeaderFirst(downloads[k].resp.content_type, u)
            IN /\ downloaded_images[u].media_type = t.media_type
               /\ downloaded_images[u].filename.ext = t.ext

\* ---------------------------------------------------------------- claim C7
\* C7: clean_html is idempotent: applied to its own output it returns that
\* output unchanged.
C7_CleanHtmlIdempotent ==
    pc = "html_cleaned_twice" => html_out2 = html_out

\* ------------------------------------------------------- claims C8, C9, C10
\* the hrefs of the links of a page, in document order
Hrefs(kids) ==
    [k \in 1..Len(AnchorsWithHref(kids)) |-> AnchorsWithHref(kids)[k].attrs["href"]]

Count(h, hrefs) == Cardinality({k \in 1..Len(hrefs) : hrefs[k] = h})

\* the ids carried by the elements of a page
IdsIn(kids) ==
    {Descendants(kids)[k].attrs["id"] :
        k \in {j \in 1..Len(Descendants(kids)) : HasAttr(Descendants(kids)[j], "id")}}

RECURSIVE WithoutAnchors(_)
\* the page with every link turned into its content
WithoutAnchors(kids) ==
    IF kids = <<>> THEN <<>>
    ELSE LET n == Head(kids)
         IN (IF IsText(n) THEN <<n>>
             ELSE IF n.tag = "a" /\ HasAttr(n, "href") THEN WithoutAnchors(n.kids)
             ELSE <<[n EXCEPT !.kids = WithoutAnchors(n.kids)]>>)
            \o WithoutAnchors(Tail(kids))

\* the chapters made from pages, each with the URL of its page:
\* [i, url] with i the position in chapters
PageChapters ==
    {c \in [i : 1..Len(chapters), url : {page_log[j].url : j \in 1..Len(page_log)}] :
        \E j \in 1..Len(page_log) :
            /\ page_log[j].url = c.url
            /\ ChapterFilename(page_log[j].idx) = chapters[c.i].file_name}

Pass2Done == pc \in {"finalize", "done"}

\* C8: after pass 2, a link (other than a fragment link) whose address,
\* resolved against the URL of its page, lies in the guide's domain is
\* rewritten to the file name of the chapter exactly when the resolved address
\* is a key of the chapter map, however the link was written.
C8_ResolvedLinksRewrittenIffInMap ==
    Pass2Done =>
        \A c \in PageChapters :
            LET before == Hrefs(chapters_pass1[c.i].content)
                after == Hrefs(chapters[c.i].content)
            IN \A k \in 1..Len(before) :
                   LET u == Urljoin(c.url, before[k])
                   IN (before[k].frag = "" /\ InIbmThink(u)) =>
                          IF u \in DOMAIN chapter_map
                          THEN /\ Count(before[k], after) = 0
                               /\ Count(chapter_map[u], after) > 0
                          ELSE Count(before[k], after) = Count(before[k], before)

MadeFor(e) == {i \in 1..Len(chapters) : chapters[i].file_name = ChapterFilename(e.idx)}

\* C10: a page whose fetch failed or whose content, stripped, is shorter than
\* 100 characters has no chapter, no entry in the chapter map and no entry in
\* the spine; a page fetched with 100 characters or more has its chapter.
C10_ShortOrFailedPagesAreSkipped ==
    \A j \in 1..Len(page_log) :
        LET e == page_log[j]
        IN IF ~e.fetched \/ e.stripped < 100 THEN
               /\ MadeFor(e) = {}
               /\ \A u \in DOMAIN chapter_map : chapter_map[u] # ChapterFilename(e.idx)
               /\ ChapterFilename(e.idx) \notin Range(spine)
           ELSE Cardinality(MadeFor(e)) = 1

\* a finished run with a page one character short (skipped), a page of
\* exactly 100 characters (in the spine) and a page whose fetch failed
C10_Witness ==
    /\ pc = "done"
    /\ \E j \in 1..Len(page_log) :
          page_log[j].fetched /\ page_log[j].stripped = 99
    /\ \E j \in 1..Len(page_log) :
          /\ page_log[j].fetched /\ page_log[j].stripped = 100
          /\ ChapterFilename(page_log[j].idx) \in Range(spine)
    /\ \E j \in 1..Len(page_log) : ~page_log[j].fetched

\* --------------------------------------------------------------- claim C11
\* the local names of the asset records of the cache
LocalNames == {downloaded_images[u].filename : u \in DOMAIN downloaded_images}

\* C11: every <img> that is in the content of a chapter (after process_images
\* and clean_html) has a src, and that src is the local name of an asset
\* record of the cache, whatever the form of the src in the source page.
C11_RemainingImagesAreLocal ==
    \A i \in 1..Len(chapters) :
        \A k \in 1..Len(FindAll(chapters[i].content, {"img"})) :
            LET img == FindAll(chapters[i].content, {"img"})[k]
            IN HasAttr(img, "src") /\ img.attrs["src"] \in LocalNames

\* --------------------------------------------------------------- claim C12
RECURSIVE PagesOfNavTree(_)
\* the chapter pages met when a navigation tree is flattened in document
\* order: a chapter bound to a link, the header page of a section before the
\* pages of its children
PagesOfNavTree(tree) ==
    IF tree = <<>> THEN <<>>
    ELSE LET entry == Head(tree)
         IN (CASE entry.kind = "chapter" -> <<entry.file_name>>
               [] entry.kind = "section" ->
                      (IF entry.section.kind = "chapter"
                       THEN <<entry.section.file_name>> ELSE <<>>)
                      \o PagesOfNavTree(entry.children)
               [] OTHER -> <<>>)
            \o PagesOfNavTree(Tail(tree))

\* the file names of the chapters in the order of add_chapter
AddOrder == [i \in 1..Len(chapters) |-> chapters[i].file_name]

\* C12: when finalize is given a TOC structure, the spine is 'nav' followed by
\* exactly the chapter pages of the navigation tree in document order.
C12_SpineFollowsNavigationTree ==
    (pc = "done" /\ toc_structure # <<>>) =>
        spine = <<NavItem>> \o PagesOfNavTree(book_toc)

\* a finished run whose navigation order is not the order in which the
\* chapters were added: the header page of a section comes after a page
C12_Witness ==
    /\ pc = "done"
    /\ toc_structure # <<>>
    /\ Len(spine) = 4
    /\ Tail(spine) # AddOrder
    /\ Range(Tail(spine)) = Range(AddOrder)
    /\ IsSectionFile(spine[3])

\* --------------------------------------------------------------- claim C13
\* the positions in toc_structure of the top-level sections that have no link
\* of their title among the pages to process
HeaderSections ==
    {k \in 1..Len(toc_structure) :
        /\ toc_structure[k].type = "section"
        /\ \A j \in 1..Len(toc_items) : toc_items[j].title # toc_structure[k].title}

\* C13: each of these sections has a placeholder page of its own (the n-th of
\* them the n-th placeholder), which is a chapter with the section's title, is
\* in the spine once and heads a section entry of the navigation tree.
C13_EverySectionHasItsPlaceholder ==
    pc = "done" =>
        \A k \in HeaderSections :
            LET n == Cardinality({j \in HeaderSections : j <= k})
                f == SectionFilename(n)
            IN /\ \E i \in 1..Len(chapters) :
                      chapters[i].file_name = f /\ chapters[i].title = toc_structure[k].title
               /\ Count(f, spine) = 1
               /\ \E j \in 1..Len(book_toc) :
                      /\ book_toc[j].kind = "section"
                      /\ book_toc[j].section = [kind |-> "chapter", file_name |-> f]

\* --------------------------------------------------------------- claim C14
RECURSIVE NavLinks(_)
\* the entries of a navigation tree that are plain links (an address and a
\* title, bound to no chapter), in document order
NavLinks(tree) ==
    IF tree = <<>> THEN <<>>
    ELSE (CASE Head(tree).kind = "link" -> <<Head(tree)>>
            [] Head(tree).kind = "section" -> NavLinks(Head(tree).children)
            [] OTHER -> <<>>)
         \o NavLinks(Tail(tree))

\* C14: in the final navigation tree no entry stands for a page that is not
\* embedded: every entry that stands for a TOC link is bound to a chapter, so
\* the tree holds no plain link.
C14_NavigationHoldsOnlyEmbeddedPages ==
    pc = "done" => NavLinks(book_toc) = <<>>

\* --------------------------------------------------------------- claim C15
\* C15: between two successive page fetches the delay is applied: in the
\* sequence of events of the crawl no page fetch is followed at once by
\* another page fetch.
C15_SleepBetweenSuccessiveFetches ==
    \A j \in 1..(Len(events) - 1) :
        ~(events[j].type = "fetch" /\ events[j + 1].type = "fetch")

\* --------------------------------------------------------------- claim C16
\* C16: a run whose starting page was fetched never aborts, whatever the page
\* holds in place of the primary navigation container: it goes on to the
\* pages and to the assembly of the package.
C16_FetchedStartingPageNeverAborts ==
    (events # <<>> /\ events[1].ok) => pc \notin {"aborted", "crashed"}

\* --------------------------------------------------------------- claim C17
\* what holds of the fetches in every state of a run
FetchesInOrder ==
    \* one fetch per item, in the order of toc_items
    /\ \A k \in 1..Len(page_log) :
          /\ page_log[k].idx = k
          /\ page_log[k].url = toc_items[k].url
          \* a failed fetch is a skip: no chapter for the item
          /\ ~page_log[k].fetched => MadeFor(page_log[k]) = {}
    /\ Len(SelectSeq(events, LAMBDA e : e.type = "fetch")) = Len(page_log)
    \* every item was attempted when the loop is over
    /\ pc \in {"finalize", "done"} => Len(page_log) = Len(toc_items)
    \* a page fetch, failed or not, never ends the run
    /\ page_log # <<>> => pc \in {"pages", "finalize", "done"}
    \* a failed fetch of the starting page ends it before any page
    /\ (events # <<>> /\ ~events[1].ok) => (pc = "aborted" /\ page_log = <<>>)
    /\ pc = "aborted" => events = <<[type |-> "fetch_main", ok |-> FALSE]>>

\* C17: the pages are fetched one at a time in the order of the flattened TOC;
\* a failed page fetch is a skip after which the next page is fetched, every
\* later page is attempted and the run reaches finalize and write; a failed
\* fetch of the starting page ends the run before any page is processed, and
\* no other failed fetch ends it.
C17_FailedFetchIsSkippedAndRunCompletes ==
    /\ []FetchesInOrder
    /\ (pc = "pages") ~> (pc = "done")

\* every step of a run is a step of Advance
StepsAdvance == [][Advance]_vars

\* a finished run in which the first page fetch failed and the second page
\* was fetched and became a chapter of the spine
C17_Witness ==
    /\ pc = "done"
    /\ Len(page_log) = 2
    /\ ~page_log[1].fetched
    /\ page_log[2].fetched
    /\ ChapterFilename(2) \in Range(spine)
    /\ ChapterFilename(1) \notin Range(spine)

\* --------------------------------------------------------------- claim C18
\* C18: every chapter made from a fetched page is in the final spine exactly
\* once.
C18_EveryPageChapterOnceInSpine ==
    pc = "done" =>
        \A i \in 1..Len(chapters) :
            ~IsSectionFile(chapters[i].file_name) =>
                Count(chapters[i].file_name, spine) = 1

\* --------------------------------------------------------------- claim C19
\* C19: when a cap on the number of pages is given, the TOC handed to the
\* assembler matches the pages to process: flattened, it is the list of the
\* pages to process, of the same length and in the same order, and that list
\* is no longer than the cap.
C19_LimitedTocMatchesPages ==
    (pc \in {"pages", "finalize", "done"} /\ max_pages # <<>>) =>
        /\ FlattenTocStructure(toc_structure) = toc_items
        /\ (processed_urls # {} => Len(toc_items) = max_pages[1])

\* --------------------------------------------------------------- claim C20
\* C20: after pass 1, the sanitizer and pass 2, every link of a chapter whose
\* href is a fragment alone (#id) has an element with that id in the chapter.
C20_FragmentLinksHaveTargets ==
    Pass2Done =>
        \A i \in 1..Len(chapters) :
            \A k \in 1..Len(Hrefs(chapters[i].content)) :
                IsFragmentOnly(Hrefs(chapters[i].content)[k]) =>
                    Hrefs(chapters[i].content)[k].frag \in IdsIn(chapters[i].content)

====
